---- MODULE Spec2Model ----
(***************************************************************************)
(* Model of the AddressAutocomplete React component                        *)
(* (src/src/components/Autocomplete.js, the locality-biased variant, and   *)
(* src/unnamed/part_000, the global variant).                              *)
(*                                                                         *)
(* Strings the code transforms (trim, toLowerCase, includes, join,         *)
(* parseFloat) are sequences of one-character strings.  An optional string *)
(* field that is absent is the empty sequence: the code reads such fields  *)
(* only through truthiness tests and `||`, under which undefined and ''    *)
(* behave alike.  Messages the code only stores are TLA+ strings.          *)
(***************************************************************************)
EXTENDS Integers, Sequences, FiniteSets, TLC

VARIABLES
    variant,            \* which of the two source files is running
    engine,             \* which Array.prototype.sort implementation runs it
    query,              \* useState('')    query
    suggestions,        \* useState([])    suggestions
    loading,            \* useState(false) loading
    selectedLocation,   \* useState(null)  selectedLocation: <<>> or <<loc>>
    showSuggestions,    \* useState(false) showSuggestions
    error,              \* useState('')    error
    timeout,            \* debounce's closure variable `timeout` (a timer id, 0 = undefined)
    timers,             \* the host's pending setTimeout timers
    inflight,           \* fetch calls awaiting their response, in dispatch order
    elapsed,            \* time since the last call of debouncedSearch (capped at Wait)
    triggered,          \* debouncedSearch has been called at least once
    lastArg,            \* argument of the last call of debouncedSearch
    burstTriggers,      \* calls of debouncedSearch in the current burst (counted up to 2)
    burstCalls,         \* calls of searchAddresses since the current burst began (up to 2)
    lastData,           \* the raw data of the last successful provider response
    leaflet,            \* the Leaflet script (window.L): "loading", "loaded" or "failed"
    mapInstanceRef,     \* mapInstanceRef.current: "null" or "map"
    markerRef           \* markerRef.current: <<>> or <<[lat, lon]>>

vars == <<variant, engine, query, suggestions, loading, selectedLocation,
          showSuggestions, error, timeout, timers, inflight, elapsed,
          triggered, lastArg, burstTriggers, burstCalls, lastData,
          leaflet, mapInstanceRef, markerRef>>

mapVars == <<leaflet, mapInstanceRef, markerRef>>

-----------------------------------------------------------------------------
(* Bounds of the model *)

MaxCands == 3
MaxInflight == 2
MaxTimers == 2

(* debounce(..., 400) *)
Wait == 400

-----------------------------------------------------------------------------
(* String primitives *)

IsSpace(c) == c \in {" ", "\t", "\n"}

RECURSIVE TrimStart(_)
TrimStart(s) ==
    IF s # <<>> /\ IsSpace(Head(s)) THEN TrimStart(Tail(s)) ELSE s

RECURSIVE TrimEnd(_)
TrimEnd(s) ==
    IF s # <<>> /\ IsSpace(s[Len(s)]) THEN TrimEnd(SubSeq(s, 1, Len(s) - 1)) ELSE s

Trim(s) == TrimEnd(TrimStart(s))

UpperChars == <<"A","B","C","D","E","F","G","H","I","J","K","L","M",
                "N","O","P","Q","R","S","T","U","V","W","X","Y","Z">>

LowerChars == <<"a","b","c","d","e","f","g","h","i","j","k","l","m",
                "n","o","p","q","r","s","t","u","v","w","x","y","z">>

LowerChar(c) ==
    IF \E i \in DOMAIN UpperChars : UpperChars[i] = c
    THEN LowerChars[CHOOSE i \in DOMAIN UpperChars : UpperChars[i] = c]
    ELSE c

ToLowerCase(s) == [i \in DOMAIN s |-> LowerChar(s[i])]

StartsWith(s, p) == Len(p) <= Len(s) /\ SubSeq(s, 1, Len(p)) = p

(* String.prototype.includes *)
Includes(s, p) ==
    \E k \in 0..(Len(s) - Len(p)) : SubSeq(s, k + 1, k + Len(p)) = p

RECURSIVE Join(_, _)
Join(parts, sep) ==
    IF parts = <<>> THEN <<>>
    ELSE IF Len(parts) = 1 THEN parts[1]
    ELSE parts[1] \o sep \o Join(Tail(parts), sep)

Truthy(s) == s # <<>>

(* a || b on optional strings *)
Or(a, b) == IF Truthy(a) THEN a ELSE b

-----------------------------------------------------------------------------
(* parseFloat on strings without fraction or exponent part: leading white   *)
(* space is skipped, then an optional sign, then "Infinity" or the longest  *)
(* prefix of decimal digits; anything else gives NaN.                       *)

Digits == <<"0","1","2","3","4","5","6","7","8","9">>

IsDigit(c) == \E i \in DOMAIN Digits : Digits[i] = c

DigitVal(c) == (CHOOSE i \in DOMAIN Digits : Digits[i] = c) - 1

RECURSIVE DigitsPrefix(_)
DigitsPrefix(s) ==
    IF s # <<>> /\ IsDigit(Head(s)) THEN <<Head(s)>> \o DigitsPrefix(Tail(s)) ELSE <<>>

RECURSIVE DigitsValue(_)
DigitsValue(d) ==
    IF d = <<>> THEN 0 ELSE 10 * DigitsValue(SubSeq(d, 1, Len(d) - 1)) + DigitVal(d[Len(d)])

NaN == [k |-> "nan", v |-> 0]

InfinityChars == <<"I","n","f","i","n","i","t","y">>

ParseFloat(s) ==
    LET t    == TrimStart(s)
        neg  == t # <<>> /\ Head(t) = "-"
        u    == IF t # <<>> /\ Head(t) \in {"+", "-"} THEN Tail(t) ELSE t
        d    == DigitsPrefix(u)
    IN  IF StartsWith(u, InfinityChars) THEN [k |-> "inf", v |-> IF neg THEN -1 ELSE 1]
        ELSE IF d = <<>> THEN NaN
        ELSE [k |-> "num", v |-> IF neg THEN 0 - DigitsValue(d) ELSE DigitsValue(d)]

(* Number.isFinite of a parsed coordinate *)
IsFinite(x) == x.k = "num"

-----------------------------------------------------------------------------
(* Provider records (RawCandidate) *)

NoAddress ==
    [house_number |-> <<>>, road |-> <<>>, neighbourhood |-> <<>>, suburb |-> <<>>,
     city_district |-> <<>>, city |-> <<>>, town |-> <<>>, village |-> <<>>,
     state_district |-> <<>>, state |-> <<>>, postcode |-> <<>>, country |-> <<>>,
     country_code |-> <<>>]

RawCandidate(pid, dn, la, lo, imp, addr) ==
    [place_id |-> pid, display_name |-> dn, lat |-> la, lon |-> lo,
     type |-> "", class |-> "", importance |-> imp, address |-> addr]

Cand1 ==
    RawCandidate(1, <<"S","p"," ","X">>, <<"2","8">>, <<"7","7">>, 1,
                 [NoAddress EXCEPT !.city = <<"S","p">>])

Cand2 ==
    RawCandidate(2, <<"s","P","r">>, <<"-","7">>, <<"1","0">>, 2,
                 [NoAddress EXCEPT !.house_number = <<"7">>, !.town = <<"s","P","r">>,
                                   !.state_district = <<"D">>])

Cand3 ==
    RawCandidate(3, <<"R","i">>, <<"5">>, <<"6">>, 2,
                 [NoAddress EXCEPT !.city = <<"R","i">>, !.state_district = <<"R","i">>,
                                   !.state = <<"T">>, !.postcode = <<"1">>])

Cand4 ==
    RawCandidate(0, <<"Z","z">>, <<"1">>, <<"2">>, 0, NoAddress)

Cand5 ==
    RawCandidate(5, <<"R","i"," ","v">>, <<"x">>, <<"9">>, 1,
                 [NoAddress EXCEPT !.village = <<"R","i">>, !.state_district = <<"R","i">>])

Cand6 ==
    RawCandidate(0, <<"M"," ","R","i">>, <<"3">>, <<"4">>, 2,
                 [NoAddress EXCEPT !.road = <<"M">>, !.city = <<"R","i">>,
                                   !.country = <<"X">>])

Pool == {Cand1, Cand2, Cand3, Cand4, Cand5, Cand6}

(* The provider's response bodies: lists of distinct records (dedupe=1). *)
RawLists(n) ==
    UNION {{s \in [1..k -> Pool] : \A i, j \in 1..k : s[i] = s[j] => i = j} : k \in 0..n}

-----------------------------------------------------------------------------
(* Address Normalizer: the body of data.map((item, index) => ...) *)

Part(field) == IF Truthy(field) THEN <<field>> ELSE <<>>

PinPrefix == <<"P","I","N",":"," ">>

India == <<"I","n","d","i","a">>

CommaSpace == <<",", " ">>

ChosenCity(address) == Or(Or(address.city, address.town), address.village)

StateDistrictPart(address) ==
    IF Truthy(address.state_district)
       /\ address.state_district # Or(address.city, address.town)
    THEN <<address.state_district>> ELSE <<>>

LabelParts(address, v) ==
    Part(address.house_number) \o Part(address.road)
    \o Part(address.neighbourhood) \o Part(address.suburb)
    \o Part(address.city_district) \o Part(ChosenCity(address))
    \o StateDistrictPart(address) \o Part(address.state)
    \o (IF v = "locality"
        THEN (IF Truthy(address.postcode) THEN <<PinPrefix \o address.postcode>> ELSE <<>>)
        ELSE Part(address.country) \o Part(address.postcode))

(* Mutant: no fallback to the provider's display string *)
CleanDisplayNameNoFallback(item, v) == Join(LabelParts(item.address, v), CommaSpace)

CleanDisplayName(item, v) ==
    LET parts == LabelParts(item.address, v)
    IN  IF Len(parts) > 0 THEN Join(parts, CommaSpace) ELSE item.display_name

(* Mutant: the positional fallback does not carry the position *)
LocationIdNoIndex(item, index) ==
    IF item.place_id # 0 THEN <<"place", item.place_id>> ELSE <<"location_", 0>>

(* index is the 0-based position in the response *)
LocationId(item, index) ==
    IF item.place_id # 0 THEN <<"place", item.place_id>> ELSE <<"location_", index>>

FormatSuggestion(item, index, v) ==
    [id |-> LocationId(item, index),
     display_name |-> item.display_name,
     clean_display_name |-> CleanDisplayName(item, v),
     lat |-> ParseFloat(item.lat),
     lon |-> ParseFloat(item.lon),
     type |-> IF item.type # "" THEN item.type ELSE "location",
     class |-> item.class,
     importance |-> item.importance,
     address |->
        [house_number |-> item.address.house_number,
         road |-> item.address.road,
         neighbourhood |-> item.address.neighbourhood,
         suburb |-> item.address.suburb,
         city_district |-> item.address.city_district,
         city |-> ChosenCity(item.address),
         state_district |-> item.address.state_district,
         state |-> item.address.state,
         country |-> IF v = "locality" THEN Or(item.address.country, India)
                     ELSE item.address.country,
         country_code |-> IF v = "locality" THEN <<>> ELSE item.address.country_code,
         postcode |-> item.address.postcode]]

FormattedSuggestions(data, v) ==
    [i \in DOMAIN data |-> FormatSuggestion(data[i], i - 1, v)]

-----------------------------------------------------------------------------
(* Ranker: the comparator given to formattedSuggestions.sort *)

CityMatches(loc, searchQuery) ==
    Includes(ToLowerCase(loc.address.city), ToLowerCase(searchQuery))

(* Mutant: the city match is not looked at *)
CompareImportanceOnly(a, b, searchQuery, v) == b.importance - a.importance

(* Mutant: the operands of the importance difference are swapped *)
CompareAscending(a, b, searchQuery, v) == a.importance - b.importance

Compare(a, b, searchQuery, v) ==
    IF v = "locality"
    THEN IF CityMatches(a, searchQuery) THEN -1
         ELSE IF CityMatches(b, searchQuery) THEN 1
         ELSE b.importance - a.importance
    ELSE b.importance - a.importance

(* Array.prototype.sort as V8 runs it on an array shorter than 32 elements: *)
(* the initial run is counted (and reversed when strictly descending), and  *)
(* the rest is placed by binary insertion.                                  *)

RECURSIVE RunLength(_, _, _, _, _)
RunLength(arr, idx, desc, q, v) ==
    IF idx > Len(arr) THEN idx - 1
    ELSE LET order == Compare(arr[idx], arr[idx - 1], q, v)
         IN  IF (desc /\ order >= 0) \/ (~desc /\ order < 0) THEN idx - 1
             ELSE RunLength(arr, idx + 1, desc, q, v)

Reverse(s) == [i \in DOMAIN s |-> s[Len(s) + 1 - i]]

RECURSIVE BinarySearch(_, _, _, _, _, _)
BinarySearch(arr, pivot, left, right, q, v) ==
    IF left >= right THEN left
    ELSE LET mid == left + ((right - left) \div 2)
         IN  IF Compare(pivot, arr[mid + 1], q, v) < 0
             THEN BinarySearch(arr, pivot, left, mid, q, v)
             ELSE BinarySearch(arr, pivot, mid + 1, right, q, v)

RECURSIVE BinaryInsertionSort(_, _, _, _)
BinaryInsertionSort(arr, start, q, v) ==
    IF start >= Len(arr) THEN arr
    ELSE LET pivot == arr[start + 1]
             left  == BinarySearch(arr, pivot, 0, start, q, v)
             next  == SubSeq(arr, 1, left) \o <<pivot>>
                      \o SubSeq(arr, left + 1, start)
                      \o SubSeq(arr, start + 2, Len(arr))
         IN  BinaryInsertionSort(next, start + 1, q, v)

V8Sort(arr, q, v) ==
    IF Len(arr) < 2 THEN arr
    ELSE LET desc == Compare(arr[2], arr[1], q, v) < 0
             run  == RunLength(arr, 3, desc, q, v)
             made == IF desc
                     THEN Reverse(SubSeq(arr, 1, run)) \o SubSeq(arr, run + 1, Len(arr))
                     ELSE arr
         IN  BinaryInsertionSort(made, run, q, v)

(* Array.prototype.sort as SpiderMonkey runs it on an array shorter than 24 *)
(* elements: a linear insertion sort.                                       *)

RECURSIVE InsertionPoint(_, _, _, _, _)
InsertionPoint(arr, item, j, q, v) ==
    IF j < 1 THEN 0
    ELSE IF Compare(arr[j], item, q, v) <= 0 THEN j
    ELSE InsertionPoint(arr, item, j - 1, q, v)

RECURSIVE InsertionSort(_, _, _, _)
InsertionSort(arr, i, q, v) ==
    IF i > Len(arr) THEN arr
    ELSE LET item == arr[i]
             j    == InsertionPoint(arr, item, i - 1, q, v)
             next == SubSeq(arr, 1, j) \o <<item>>
                     \o SubSeq(arr, j + 1, i - 1)
                     \o SubSeq(arr, i + 1, Len(arr))
         IN  InsertionSort(next, i + 1, q, v)

Engines == {"v8", "spidermonkey"}

ArraySort(arr, q, v, e) ==
    IF e = "v8" THEN V8Sort(arr, q, v) ELSE InsertionSort(arr, 2, q, v)

SortedSuggestions(data, searchQuery, v, e) ==
    ArraySort(FormattedSuggestions(data, v), searchQuery, v, e)

-----------------------------------------------------------------------------
(* Inputs of the main specification *)

(* Values the user leaves in the text field *)
Inputs == {<<>>, <<" ">>, <<" ","s">>, <<"s","p">>}

(* Response bodies the provider answers with *)
MainData == {<<>>, <<Cand1>>}

(* Time the event loop lets pass between two events *)
TickLens == {200}

NoLocationsMsg == "No locations found. Try a different search term."

FailedMsg == "Failed to fetch locations. Please check your internet connection."

(* What a fetch ends with: a body, a non-ok status, or a rejected promise    *)
(* (of fetch itself or of response.json(): the same catch handles both)     *)
Outcomes(dataSet) ==
    {[kind |-> "ok", data |-> d] : d \in dataSet}
    \cup {[kind |-> "http_error", data |-> <<>>], [kind |-> "network_error", data |-> <<>>]}

Min(a, b) == IF a <= b THEN a ELSE b

-----------------------------------------------------------------------------
(* Host timers: setTimeout / clearTimeout *)

TimerIds(ts) == {t.id : t \in ts}

(* a handle no pending timer and no kept handle uses *)
FreshId(ts, kept) ==
    CHOOSE n \in 1..(Cardinality(ts) + 2) :
        /\ n \notin TimerIds(ts) \cup {kept}
        /\ \A m \in 1..(n - 1) : m \in TimerIds(ts) \cup {kept}

(* Mutant: clearTimeout retires nothing *)
ClearTimeoutNoop(ts, id) == ts

ClearTimeout(ts, id) == {t \in ts : t.id # id}

SetTimeout(ts, id, wait, arg) == ts \cup {[id |-> id, remaining |-> wait, arg |-> arg]}

(* A due timer callback runs before any event that arrives later. *)
TimerDue == \E t \in timers : t.remaining = 0

-----------------------------------------------------------------------------
(* debounce: executedFunction(...args), the function debouncedSearch holds *)

(* A burst of triggers: each one less than Wait after the one before it *)
InBurst == triggered /\ elapsed < Wait

(* Mutant: a new trigger arms a timer without retiring the pending one *)
DebouncedSearchNoClear(arg) ==
    LET id == FreshId(timers, timeout)
    IN  /\ Cardinality(timers) < MaxTimers
        /\ timers' = SetTimeout(timers, id, Wait, arg)
        /\ timeout' = id
        /\ elapsed' = 0
        /\ triggered' = TRUE
        /\ lastArg' = arg
        /\ burstTriggers' = IF InBurst THEN Min(burstTriggers + 1, 2) ELSE 1
        /\ burstCalls' = IF InBurst THEN burstCalls ELSE 0

DebouncedSearch(arg) ==
    LET cleared == ClearTimeout(timers, timeout)
        id      == FreshId(cleared, timeout)
    IN  /\ Cardinality(timers) < MaxTimers
        /\ timers' = SetTimeout(cleared, id, Wait, arg)
        /\ timeout' = id
        /\ elapsed' = 0
        /\ triggered' = TRUE
        /\ lastArg' = arg
        /\ burstTriggers' = IF InBurst THEN Min(burstTriggers + 1, 2) ELSE 1
        /\ burstCalls' = IF InBurst THEN burstCalls ELSE 0

NoDebounce ==
    UNCHANGED <<timeout, timers, elapsed, triggered, lastArg, burstTriggers, burstCalls>>

(* useEffect(..., [query, debouncedSearch]): runs after a render in which    *)
(* query changed; sug, show, err are the values the handler itself left.    *)
UseEffectQuery(q, sug, show, err) ==
    IF q = query
    THEN /\ suggestions' = sug /\ showSuggestions' = show /\ error' = err
         /\ NoDebounce
    ELSE IF Truthy(Trim(q))
    THEN /\ suggestions' = sug /\ showSuggestions' = show /\ error' = err
         /\ DebouncedSearch(Trim(q))
    ELSE /\ suggestions' = <<>> /\ showSuggestions' = FALSE /\ error' = ""
         /\ NoDebounce

-----------------------------------------------------------------------------
(* User events *)

handleInputChange(value) ==
    /\ ~TimerDue
    /\ value # query
    /\ query' = value
    /\ selectedLocation' = IF value = <<>> THEN <<>> ELSE selectedLocation
    /\ IF value = <<>>
       THEN UseEffectQuery(value, <<>>, FALSE, "")
       ELSE UseEffectQuery(value, suggestions, showSuggestions, error)
    /\ UNCHANGED <<variant, engine, mapVars, loading, inflight, lastData>>

(* Mutant: the map is updated without the guard and without the try: a   *)
(* selection made without a map does not complete                       *)
UseEffectSelectedLocationUnguarded(loc) ==
    /\ mapInstanceRef = "map"
    /\ markerRef' = <<[lat |-> loc.lat, lon |-> loc.lon]>>

(* useEffect(..., [selectedLocation]) after a pick: with a map, the marker  *)
(* is replaced; window.L.marker throws for coordinates that are not finite, *)
(* the catch logs it and markerRef keeps its value                          *)
UseEffectSelectedLocation(loc) ==
    IF mapInstanceRef = "map" /\ leaflet = "loaded"
          /\ IsFinite(loc.lat) /\ IsFinite(loc.lon)
    THEN markerRef' = <<[lat |-> loc.lat, lon |-> loc.lon]>>
    ELSE UNCHANGED markerRef

(* Mutant: the selection empties the candidate list *)
handleSuggestionClickClearsList(suggestion) ==
    /\ ~TimerDue
    /\ showSuggestions
    /\ query' = suggestion.clean_display_name
    /\ selectedLocation' = <<suggestion>>
    /\ UseEffectQuery(suggestion.clean_display_name, <<>>, FALSE, "")
    /\ UseEffectSelectedLocation(suggestion)
    /\ UNCHANGED <<variant, engine, leaflet, mapInstanceRef, loading, inflight, lastData>>

handleSuggestionClick(suggestion) ==
    /\ ~TimerDue
    /\ showSuggestions
    /\ query' = suggestion.clean_display_name
    /\ selectedLocation' = <<suggestion>>
    /\ UseEffectQuery(suggestion.clean_display_name, suggestions, FALSE, "")
    /\ UseEffectSelectedLocation(suggestion)
    /\ UNCHANGED <<variant, engine, leaflet, mapInstanceRef, loading, inflight, lastData>>

(* Mutant: the clear leaves the selection in place *)
clearInputKeepsSelection ==
    /\ ~TimerDue
    /\ Truthy(query)
    /\ query' = <<>>
    /\ UseEffectQuery(<<>>, <<>>, FALSE, "")
    /\ UNCHANGED <<variant, engine, mapVars, loading, inflight, lastData, selectedLocation>>

clearInput ==
    /\ ~TimerDue
    /\ Truthy(query)
    /\ query' = <<>>
    /\ selectedLocation' = <<>>
    /\ UseEffectQuery(<<>>, <<>>, FALSE, "")
    /\ UNCHANGED <<variant, engine, mapVars, loading, inflight, lastData>>

(* Mutant: a focus opens the list whatever it holds *)
handleInputFocusAlways ==
    /\ ~TimerDue
    /\ showSuggestions' = TRUE
    /\ UNCHANGED <<variant, engine, mapVars, query, suggestions, loading, selectedLocation, error,
                   timeout, timers, inflight, elapsed, triggered, lastArg,
                   burstTriggers, burstCalls, lastData>>

handleInputFocus ==
    /\ ~TimerDue
    /\ Len(suggestions) > 0
    /\ showSuggestions' = TRUE
    /\ UNCHANGED <<variant, engine, mapVars, query, suggestions, loading, selectedLocation, error,
                   timeout, timers, inflight, elapsed, triggered, lastArg,
                   burstTriggers, burstCalls, lastData>>

handleClickOutside ==
    /\ ~TimerDue
    /\ showSuggestions /\ Len(suggestions) > 0
    /\ showSuggestions' = FALSE
    /\ UNCHANGED <<variant, engine, mapVars, query, suggestions, loading, selectedLocation, error,
                   timeout, timers, inflight, elapsed, triggered, lastArg,
                   burstTriggers, burstCalls, lastData>>

-----------------------------------------------------------------------------
(* Time *)

Tick(d) ==
    /\ \A t \in timers : d <= t.remaining
    /\ timers' = {[t EXCEPT !.remaining = t.remaining - d] : t \in timers}
    /\ elapsed' = Min(Wait, elapsed + d)
    /\ UNCHANGED <<variant, engine, mapVars, query, suggestions, loading, selectedLocation,
                   showSuggestions, error, timeout, inflight, triggered, lastArg,
                   burstTriggers, burstCalls, lastData>>

-----------------------------------------------------------------------------
(* debounce's `later`, which calls searchAddresses up to its await fetch *)

TooShort(searchQuery) == Len(searchQuery) < 2

TimerFire(t) ==
    /\ t \in timers
    /\ t.remaining = 0
    /\ timers' = ClearTimeout(timers \ {t}, timeout)
    /\ burstCalls' = Min(burstCalls + 1, 2)
    /\ IF TooShort(t.arg)
       THEN /\ suggestions' = <<>>
            /\ showSuggestions' = FALSE
            /\ UNCHANGED <<loading, error, inflight>>
       ELSE /\ Len(inflight) < MaxInflight
            /\ loading' = TRUE
            /\ error' = ""
            /\ inflight' = Append(inflight, [searchQuery |-> t.arg, stale |-> FALSE])
            /\ UNCHANGED <<suggestions, showSuggestions>>
    /\ UNCHANGED <<variant, engine, mapVars, query, selectedLocation, timeout, elapsed, triggered,
                   lastArg, burstTriggers, lastData>>

(* The requests left when request i has been answered; those dispatched     *)
(* before it are from now on answered after a later one.                    *)
Answered(reqs, i) ==
    [j \in 1..(Len(reqs) - 1) |->
        IF j < i THEN [reqs[j] EXCEPT !.stale = TRUE] ELSE reqs[j + 1]]

(* Mutant: a response without results leaves the error as it was *)
CommitResponseSilentEmpty(i, outcome) ==
    /\ i \in DOMAIN inflight
    /\ inflight' = Answered(inflight, i)
    /\ IF outcome.kind = "ok" /\ Len(outcome.data) > 0
       THEN /\ suggestions' = SortedSuggestions(outcome.data, inflight[i].searchQuery,
                                                variant, engine)
            /\ showSuggestions' = TRUE
            /\ lastData' = outcome.data
            /\ UNCHANGED error
       ELSE IF outcome.kind = "ok"
       THEN /\ suggestions' = <<>>
            /\ showSuggestions' = FALSE
            /\ UNCHANGED <<error, lastData>>
       ELSE /\ error' = FailedMsg
            /\ suggestions' = <<>>
            /\ showSuggestions' = FALSE
            /\ UNCHANGED lastData
    /\ UNCHANGED <<variant, engine, mapVars, query, timeout, timers, elapsed,
                   triggered, lastArg, burstTriggers, burstCalls>>

(* Mutant: a failed search sets the error and keeps the candidates *)
CommitResponseKeepsOnFailure(i, outcome) ==
    /\ i \in DOMAIN inflight
    /\ inflight' = Answered(inflight, i)
    /\ IF outcome.kind = "ok" /\ Len(outcome.data) > 0
       THEN /\ suggestions' = SortedSuggestions(outcome.data, inflight[i].searchQuery,
                                                variant, engine)
            /\ showSuggestions' = TRUE
            /\ lastData' = outcome.data
            /\ UNCHANGED error
       ELSE IF outcome.kind = "ok"
       THEN /\ suggestions' = <<>>
            /\ showSuggestions' = FALSE
            /\ error' = NoLocationsMsg
            /\ UNCHANGED lastData
       ELSE /\ error' = FailedMsg
            /\ UNCHANGED <<suggestions, showSuggestions, lastData>>
    /\ UNCHANGED <<variant, engine, mapVars, query, timeout, timers, elapsed,
                   triggered, lastArg, burstTriggers, burstCalls>>

(* The state a response commits, apart from loading and the selection *)
CommitResponse(i, outcome) ==
    /\ i \in DOMAIN inflight
    /\ inflight' = Answered(inflight, i)
    /\ IF outcome.kind = "ok" /\ Len(outcome.data) > 0
       THEN /\ suggestions' = SortedSuggestions(outcome.data, inflight[i].searchQuery,
                                                variant, engine)
            /\ showSuggestions' = TRUE
            /\ lastData' = outcome.data
            /\ UNCHANGED error
       ELSE IF outcome.kind = "ok"
       THEN /\ suggestions' = <<>>
            /\ showSuggestions' = FALSE
            /\ error' = NoLocationsMsg
            /\ UNCHANGED lastData
       ELSE /\ error' = FailedMsg
            /\ suggestions' = <<>>
            /\ showSuggestions' = FALSE
            /\ UNCHANGED lastData
    /\ UNCHANGED <<variant, engine, mapVars, query, timeout, timers, elapsed,
                   triggered, lastArg, burstTriggers, burstCalls>>

(* Mutant: a failed search resets the selection *)
FetchResolveResetsSelection(i, outcome) ==
    /\ CommitResponse(i, outcome)
    /\ loading' = FALSE
    /\ selectedLocation' = IF outcome.kind = "ok" THEN selectedLocation ELSE <<>>

(* Mutant: loading is cleared on the success path only, not in a finally *)
FetchResolveNoFinally(i, outcome) ==
    /\ CommitResponse(i, outcome)
    /\ loading' = IF outcome.kind = "ok" THEN FALSE ELSE loading
    /\ UNCHANGED selectedLocation

(* searchAddresses from the end of await fetch to the end of finally *)
FetchResolve(i, outcome) ==
    /\ CommitResponse(i, outcome)
    /\ loading' = FALSE
    /\ UNCHANGED selectedLocation

-----------------------------------------------------------------------------
(* The map surface: useEffect(..., []) loading Leaflet and creating the map *)

widgetVars == <<variant, engine, query, suggestions, loading, selectedLocation,
                showSuggestions, error, timeout, timers, inflight, elapsed,
                triggered, lastArg, burstTriggers, burstCalls, lastData>>

(* script.onload = initializeMap: window.L.map(...) either gives the map or *)
(* throws, and the catch logs the error and leaves mapInstanceRef null      *)
initializeMap(thrown) ==
    /\ ~TimerDue
    /\ leaflet = "loading"
    /\ leaflet' = "loaded"
    /\ mapInstanceRef' = IF thrown THEN "null" ELSE "map"
    /\ UNCHANGED <<widgetVars, markerRef>>

(* script.onerror: the script does not load, and the error is logged *)
scriptOnError ==
    /\ ~TimerDue
    /\ leaflet = "loading"
    /\ leaflet' = "failed"
    /\ UNCHANGED <<widgetVars, mapInstanceRef, markerRef>>

-----------------------------------------------------------------------------
(* The widget *)

Variants == {"locality", "global"}

Init ==
    /\ variant \in Variants
    /\ engine \in Engines
    /\ query = <<>>
    /\ suggestions = <<>>
    /\ loading = FALSE
    /\ selectedLocation = <<>>
    /\ showSuggestions = FALSE
    /\ error = ""
    /\ timeout = 0
    /\ timers = {}
    /\ inflight = <<>>
    /\ elapsed = 0
    /\ triggered = FALSE
    /\ lastArg = <<>>
    /\ burstTriggers = 0
    /\ burstCalls = 0
    /\ lastData = <<>>
    /\ leaflet = "loading"
    /\ mapInstanceRef = "null"
    /\ markerRef = <<>>

Next ==
    \/ \E value \in Inputs : handleInputChange(value)
    \/ \E k \in DOMAIN suggestions : handleSuggestionClick(suggestions[k])
    \/ clearInput
    \/ handleInputFocus
    \/ handleClickOutside
    \/ \E d \in TickLens : Tick(d)
    \/ \E t \in timers : TimerFire(t)
    \/ \E i \in DOMAIN inflight, o \in Outcomes(MainData) : FetchResolve(i, o)

Spec == Init /\ [][Next]_vars

(* The widget together with the settling of the map script, for searches *)
(* that do not overlap                                                    *)

MapNext ==
    \/ \E thrown \in BOOLEAN : initializeMap(thrown)
    \/ scriptOnError
    \/ \E value \in Inputs : handleInputChange(value)
    \/ \E k \in DOMAIN suggestions : handleSuggestionClick(suggestions[k])
    \/ clearInput
    \/ handleInputFocus
    \/ handleClickOutside
    \/ \E d \in TickLens : Tick(d)
    \/ \E t \in timers : (TooShort(t.arg) \/ inflight = <<>>) /\ TimerFire(t)
    \/ \E i \in DOMAIN inflight, o \in Outcomes(MainData) : FetchResolve(i, o)

MapSpec == Init /\ [][MapNext]_vars

-----------------------------------------------------------------------------
(* The ranking pipeline on every response body of up to MaxCands records:   *)
(* the widget has dispatched the search for the typed query and the         *)
(* provider answers it.                                                     *)

RankQueries == {<<"s","p">>, <<"R","I">>, <<"z","z">>}

RankInit ==
    /\ variant \in Variants
    /\ engine \in Engines
    /\ query \in RankQueries
    /\ suggestions = <<>>
    /\ loading = TRUE
    /\ selectedLocation = <<>>
    /\ showSuggestions = FALSE
    /\ error = ""
    /\ timeout = 1
    /\ timers = {}
    /\ inflight = <<[searchQuery |-> Trim(query), stale |-> FALSE]>>
    /\ elapsed = Wait
    /\ triggered = TRUE
    /\ lastArg = Trim(query)
    /\ burstTriggers = 1
    /\ burstCalls = 1
    /\ lastData = <<>>
    /\ leaflet = "loading"
    /\ mapInstanceRef = "null"
    /\ markerRef = <<>>

RankNext ==
    \E i \in DOMAIN inflight, o \in Outcomes(RawLists(MaxCands)) : FetchResolve(i, o)

RankSpec == RankInit /\ [][RankNext]_vars

-----------------------------------------------------------------------------
(* Steps and states the claims speak about *)

(* The request at position i was dispatched before one already answered *)
LateResponse(i, o) == inflight[i].stale /\ FetchResolve(i, o)

IdleState == Trim(query) = <<>> /\ suggestions = <<>> /\ error = ""

BackgroundStep ==
    \/ \E t \in timers : TimerFire(t)
    \/ \E i \in DOMAIN inflight, o \in Outcomes(MainData) : FetchResolve(i, o)

SelectionStep == \E k \in DOMAIN suggestions : handleSuggestionClick(suggestions[k])

ClearStep == clearInput \/ handleInputChange(<<>>)

(* The text field takes a value whose trimmed text is empty *)
BlankInputStep == \E value \in Inputs : Trim(value) = <<>> /\ handleInputChange(value)

(* The debounced search step runs for a query shorter than 2 *)
ShortSearchStep == \E t \in timers : TooShort(t.arg) /\ TimerFire(t)

(* C1: a response that arrives after the response of a later-dispatched     *)
(* search is discarded: it changes neither the displayed candidates nor the *)
(* error, so what is displayed stays what the later search produced.        *)
C1_StaleResponseDiscarded ==
    [][\A i \in DOMAIN inflight, o \in Outcomes(MainData) :
          LateResponse(i, o) => (suggestions' = suggestions /\ error' = error)]_vars

(* C2: selecting a candidate arms no debounce timer and dispatches no       *)
(* provider call.                                                           *)
C2_SelectionDispatchesNothing ==
    [][SelectionStep => (timers' = timers /\ timeout' = timeout /\ inflight' = inflight)]_vars

(* C3: right after the explicit clear, taken in any reachable state, the    *)
(* query text is empty, the candidate list is empty, nothing is selected    *)
(* and there is no error.                                                   *)
C3_ClearResets ==
    [][ClearStep =>
          (query' = <<>> /\ suggestions' = <<>> /\ selectedLocation' = <<>> /\ error' = "")]_vars

(* C3 witness: the clear has acted while a debounce timer was pending and a *)
(* provider request was in flight (only a clear leaves the query empty with *)
(* a timer still pending).                                                  *)
C3_Witness ==
    /\ query = <<>> /\ suggestions = <<>> /\ selectedLocation = <<>> /\ error = ""
    /\ timers # {}
    /\ inflight # <<>>

(* C4: once Idle, the state stays Idle until the next user input: no timer  *)
(* firing and no provider response dispatches a search or puts candidates   *)
(* or an error back.                                                        *)
C4_IdleStaysIdle ==
    [][(IdleState /\ BackgroundStep) => (IdleState' /\ Len(inflight') <= Len(inflight))]_vars

(* C5: for a query whose trimmed text is shorter than 2 no provider call is *)
(* issued, and after the search step has run the state holds no candidates  *)
(* and no error.                                                            *)
C5_ShortQueryIdle ==
    [][(ShortSearchStep \/ BlankInputStep) =>
          (inflight' = inflight /\ suggestions' = <<>> /\ error' = "")]_vars

(* C6: for any burst of N >= 1 triggers, each less than the quiet period    *)
(* after the one before, the wrapped search is invoked exactly once: not    *)
(* before the quiet period has passed since the last trigger, with the last *)
(* trigger's arguments, and it has been invoked once when the quiet period  *)
(* has passed.                                                              *)
C6_DebounceOnce ==
    [][/\ \A t \in timers :
             TimerFire(t) => (elapsed = Wait /\ t.arg = lastArg /\ burstCalls = 0)
       /\ (triggered' /\ elapsed' = Wait /\ ~TimerDue') => burstCalls' = 1]_vars

(* C6 witness: a burst of at least two rapid triggers has been answered by  *)
(* one invocation.                                                          *)
C6_Witness == burstTriggers = 2 /\ burstCalls = 1 /\ elapsed = Wait /\ timers = {}

-----------------------------------------------------------------------------
(* Claims about the normalizer and the ranker, on the stored candidates     *)

Stored == inflight = <<>> /\ Len(suggestions) > 0

FiniteCoordinates(loc) == IsFinite(loc.lat) /\ IsFinite(loc.lon)

RawFinite(item) == IsFinite(ParseFloat(item.lat)) /\ IsFinite(ParseFloat(item.lon))

(* C7: every stored Location has finite coordinates: of N raw candidates of *)
(* which K do not parse to finite coordinates, exactly N-K are stored.      *)
C7_FiniteCoordinatesOnly ==
    Stored =>
        /\ \A i \in DOMAIN suggestions : FiniteCoordinates(suggestions[i])
        /\ Len(suggestions) = Cardinality({i \in DOMAIN lastData : RawFinite(lastData[i])})

Matches(loc) == CityMatches(loc, Trim(query))

(* C8: in the locality-biased variant every candidate whose city contains   *)
(* the query (case-insensitively) is placed before every candidate whose    *)
(* city does not.                                                           *)
C8_MatchesFirst ==
    (Stored /\ variant = "locality") =>
        \A i, j \in DOMAIN suggestions :
            (Matches(suggestions[i]) /\ ~Matches(suggestions[j])) => i < j

(* C8 witness: a match is placed before a non-match of higher importance    *)
(* that the provider listed first.                                          *)
C8_Witness ==
    /\ Stored /\ variant = "locality"
    /\ Len(lastData) = 3
    /\ ~Matches(FormatSuggestion(lastData[1], 0, variant))
    /\ \E i, j \in DOMAIN suggestions :
          /\ i < j
          /\ Matches(suggestions[i]) /\ ~Matches(suggestions[j])
          /\ suggestions[i].importance < suggestions[j].importance

(* C9: ranking is idempotent in both variants: ranking the ranked list      *)
(* again with the same query gives the same list.                           *)
C9_RankIdempotent ==
    Stored => ArraySort(suggestions, Trim(query), variant, engine) = suggestions

(* C10: in the global variant the ranked list is a permutation of the       *)
(* normalized candidates in non-increasing order of importance, candidates  *)
(* of equal importance keeping their provider order.                        *)
C10_GlobalRanking ==
    (Stored /\ variant = "global") =>
        LET normalized == FormattedSuggestions(lastData, variant)
            n == Len(normalized)
        IN  /\ Len(suggestions) = n
            /\ \E p \in Permutations(1..n) :
                  /\ \A i \in 1..n : suggestions[i] = normalized[p[i]]
                  /\ \A i, j \in 1..n :
                        i < j =>
                          /\ suggestions[i].importance >= suggestions[j].importance
                          /\ (suggestions[i].importance = suggestions[j].importance
                                => p[i] < p[j])

(* C10 witness: three candidates, two of equal importance, were reordered.  *)
C10_Witness ==
    /\ Stored /\ variant = "global"
    /\ Len(suggestions) = 3
    /\ suggestions # FormattedSuggestions(lastData, variant)
    /\ \E i \in 1..2 : suggestions[i].importance = suggestions[i + 1].importance

-----------------------------------------------------------------------------
(* Claims about the label and the identifier of the stored candidates       *)

(* The Location stored for the record at position i of the response *)
Normalized(i) == FormatSuggestion(lastData[i], i - 1, variant)

IsStored(loc) == \E j \in DOMAIN suggestions : suggestions[j] = loc

(* The fields of the label in the order of spec section 4.3, the state      *)
(* district left out when it repeats the chosen city                        *)
SpecLabelFields(address) ==
    <<address.house_number, address.road, address.neighbourhood, address.suburb,
      address.city_district, ChosenCity(address),
      IF address.state_district = ChosenCity(address) THEN <<>> ELSE address.state_district,
      address.state, address.country, address.postcode>>

PresentFields(fields) == SelectSeq(fields, Truthy)

(* C11: the label of every candidate with a structured field is the         *)
(* ", "-join of its present fields in the order house number, road,         *)
(* neighbourhood, suburb, city district, city, state district, state,       *)
(* country, postal code, each value unmodified.                             *)
C11_LabelJoinsPresentFields ==
    Stored =>
        \A i \in DOMAIN lastData :
            LET present == PresentFields(SpecLabelFields(lastData[i].address))
            IN  present # <<>> =>
                  /\ IsStored(Normalized(i))
                  /\ Normalized(i).clean_display_name = Join(present, CommaSpace)

(* C12: whenever no search is in flight, the error message and the candidate
   list are not both non-empty *)
C12_ErrorExcludesCandidates ==
    inflight = <<>> => ~(error # "" /\ suggestions # <<>>)

(* C13: picking a candidate stores it as the selection, sets the query to its
   label, hides the list and leaves the candidates as they were *)
C13_SelectionKeepsCandidates ==
    [][\A k \in DOMAIN suggestions :
          handleSuggestionClick(suggestions[k]) =>
              /\ selectedLocation' = <<suggestions[k]>>
              /\ query' = suggestions[k].clean_display_name
              /\ showSuggestions' = FALSE
              /\ suggestions' = suggestions]_vars

C13_Witness ==
    /\ selectedLocation # <<>>
    /\ IsStored(selectedLocation[1])
    /\ query = selectedLocation[1].clean_display_name
    /\ ~showSuggestions

(* C14: the selection changes only when a candidate is picked, the input is
   cleared, or the input is edited to the empty string; no search dispatch,
   completion or failure and no debounce firing changes it *)
C14_SelectionChangesOnlyByUser ==
    [][selectedLocation' # selectedLocation => SelectionStep \/ ClearStep]_vars

C14_Witness ==
    /\ selectedLocation # <<>>
    /\ inflight = <<>>
    /\ error = FailedMsg

(* C15: the identifiers of the candidates stored from one response are
   pairwise distinct *)
C15_IdsUnique ==
    Stored =>
        \A i, j \in DOMAIN suggestions :
            suggestions[i].id = suggestions[j].id => i = j

C15_Witness ==
    /\ Stored
    /\ \E i, j \in DOMAIN suggestions :
          /\ i # j
          /\ suggestions[i].id[1] = "location_"
          /\ suggestions[j].id[1] = "location_"

(* C16: a candidate with no structured address field is stored with the
   provider's display string as its label *)
C16_FallbackLabel ==
    Stored =>
        \A i \in DOMAIN lastData :
            PresentFields(SpecLabelFields(lastData[i].address)) = <<>> =>
                /\ IsStored(Normalized(i))
                /\ Normalized(i).clean_display_name = lastData[i].display_name

C16_Witness ==
    /\ Stored
    /\ Len(lastData) > 1
    /\ \E i \in DOMAIN lastData :
          /\ lastData[i].address = NoAddress
          /\ \E j \in DOMAIN suggestions :
                suggestions[j].clean_display_name = lastData[i].display_name

(* C17: in the locality-biased variant, within the matching candidates and
   within the others, importance does not increase and candidates of equal
   importance keep the provider's order *)
C17_PartitionsRanked ==
    (Stored /\ variant = "locality") =>
        \E p \in Permutations(1..Len(lastData)) :
            /\ \A i \in DOMAIN suggestions : suggestions[i] = Normalized(p[i])
            /\ \A i, j \in DOMAIN suggestions :
                  (i < j /\ Matches(suggestions[i]) = Matches(suggestions[j])) =>
                      /\ suggestions[i].importance >= suggestions[j].importance
                      /\ suggestions[i].importance = suggestions[j].importance
                            => p[i] < p[j]

(* C18: the state district is put into the label only if it differs from the
   chosen city, the first present of city, town and village *)
C18_StateDistrictOnlyIfDifferent ==
    Stored =>
        \A i \in DOMAIN lastData :
            LET a == lastData[i].address
                without == [lastData[i] EXCEPT !.address.state_district = <<>>]
            IN  (Truthy(a.state_district) /\ a.state_district = ChosenCity(a)) =>
                    Normalized(i).clean_display_name = CleanDisplayName(without, variant)

(* The provider answers or fails a request *)
ResponseStep == \E i \in DOMAIN inflight : \E o \in Outcomes(MainData) : FetchResolve(i, o)

FairSpec == Spec /\ WF_vars(ResponseStep)

(* C19: with no search in flight loading is false, and, the provider answering
   or failing every request, loading always becomes false again *)
C19_LoadingCleared ==
    /\ [](inflight = <<>> => ~loading)
    /\ (loading ~> ~loading)

C19_Witness ==
    /\ ~loading
    /\ inflight = <<>>
    /\ error = FailedMsg
    /\ triggered

(* C20: loading is true whenever a dispatched search is outstanding *)
C20_LoadingWhileOutstanding ==
    inflight # <<>> => loading

-----------------------------------------------------------------------------
(* Claims about the end of a search, the timers and the visibility of the list *)

EmptyOutcome == [kind |-> "ok", data |-> <<>>]

FailureOutcomes == {o \in Outcomes(MainData) : o.kind # "ok"}

(* C21: a search answered with a success and zero results ends with the
   candidate list empty, loading false and the error set to the "no locations
   found" message *)
C21_ZeroResults ==
    [][\A i \in DOMAIN inflight :
          FetchResolve(i, EmptyOutcome) =>
              /\ suggestions' = <<>>
              /\ loading' = FALSE
              /\ error' = NoLocationsMsg]_vars

C21_Witness ==
    /\ lastData # <<>>
    /\ inflight = <<>>
    /\ suggestions = <<>>
    /\ ~loading
    /\ error = NoLocationsMsg

(* C22: a search that fails with a non-success status or with a network or
   parse exception ends with the candidate list empty, loading false and the
   error set to the connectivity message: the failure is caught and becomes
   this step of the widget *)
C22_Failure ==
    [][\A i \in DOMAIN inflight : \A o \in FailureOutcomes :
          FetchResolve(i, o) =>
              /\ suggestions' = <<>>
              /\ loading' = FALSE
              /\ error' = FailedMsg]_vars

C22_Witness ==
    /\ lastData # <<>>
    /\ inflight = <<>>
    /\ suggestions = <<>>
    /\ ~showSuggestions
    /\ ~loading
    /\ error = FailedMsg

(* The host runs every due timer callback and time passes; nothing is said *)
(* about the provider, which may leave a request unanswered for ever       *)
TimerStep == \E t \in timers : TimerFire(t)

TimeStep == \E d \in TickLens : Tick(d)

SilentSpec == Spec /\ WF_vars(TimerStep) /\ WF_vars(TimeStep)

(* C23: a search whose request the provider never answers still ends: the
   widget leaves the searching state, with loading false *)
C23_SearchingEnds == (loading /\ inflight # <<>>) ~> ~loading

(* C24: at most one debounce timer is pending, whatever the number and the
   timing of the triggers *)
C24_OneTimer == Cardinality(timers) <= 1

C24_Witness == burstTriggers = 2 /\ elapsed < Wait /\ Cardinality(timers) = 1

(* C25: the suggestion list is flagged visible only while the candidate list
   is non-empty *)
C25_VisibleOnlyIfCandidates == showSuggestions => suggestions # <<>>

C25_Witness ==
    /\ selectedLocation # <<>>
    /\ query = selectedLocation[1].clean_display_name
    /\ showSuggestions
    /\ suggestions # <<>>
    /\ timers # {}
    /\ inflight = <<>>

-----------------------------------------------------------------------------
(* Claim about the map surface *)

MapStep == scriptOnError \/ \E thrown \in BOOLEAN : initializeMap(thrown)

(* The map script has settled and there is no map *)
MapFailed == leaflet # "loading" /\ mapInstanceRef = "null"

(* A pick is possible whenever the list is shown and does what it does *)
SelectionUnaffected ==
    \A k \in DOMAIN suggestions :
        /\ (showSuggestions /\ ~TimerDue) => ENABLED handleSuggestionClick(suggestions[k])
        /\ handleSuggestionClick(suggestions[k]) =>
              /\ selectedLocation' = <<suggestions[k]>>
              /\ query' = suggestions[k].clean_display_name
              /\ showSuggestions' = FALSE
              /\ UNCHANGED <<suggestions, loading, inflight>>

(* A due search is dispatched *)
DispatchUnaffected ==
    \A t \in timers :
        /\ (t.remaining = 0 /\ ~TooShort(t.arg) /\ Len(inflight) < MaxInflight) =>
              ENABLED TimerFire(t)
        /\ (TimerFire(t) /\ ~TooShort(t.arg)) =>
              /\ loading' = TRUE
              /\ inflight' = Append(inflight, [searchQuery |-> t.arg, stale |-> FALSE])

(* A response is committed *)
CommitUnaffected ==
    \A i \in DOMAIN inflight : \A o \in Outcomes(MainData) :
        (FetchResolve(i, o) /\ o.kind = "ok" /\ Len(o.data) > 0) =>
              /\ suggestions' = SortedSuggestions(o.data, inflight[i].searchQuery,
                                                  variant, engine)
              /\ showSuggestions' = TRUE
              /\ loading' = FALSE

(* C26: a failure to load or to create the map changes none of query,
   candidates, loading, selection and error, and with or without a map the
   dispatch of a search, the commit of a response and the pick of a candidate
   are possible in the same states and have the same effect *)
C26_MapFailureHarmless ==
    [][/\ MapStep => UNCHANGED <<query, suggestions, loading, selectedLocation, error>>
       /\ SelectionUnaffected
       /\ DispatchUnaffected
       /\ CommitUnaffected]_vars

C26_Witness ==
    /\ MapFailed
    /\ selectedLocation # <<>>
    /\ IsStored(selectedLocation[1])
    /\ query = selectedLocation[1].clean_display_name
    /\ markerRef = <<>>

====
